---- MODULE Spec2Model ----
(***************************************************************************)
(* Leave Normalization Tool (src/app.py).                                  *)
(*                                                                         *)
(* The script runs top to bottom on an uploaded file: raw view, month      *)
(* detection from the file name, required-column check, cleaning, month +  *)
(* approved filter, month view, the normalize loop, the sorted result and  *)
(* the payroll table.  Each stage is one action; pc is the script position.*)
(*                                                                         *)
(* Representation                                                          *)
(*  - a text cell is a tuple of one-character strings; NaN is the missing  *)
(*    cell of pandas;                                                      *)
(*  - a Timestamp is the ordinal of its day, counted from 2025-01-01 = 1   *)
(*    (2025..2027 have 365 days each); NaT is the missing Timestamp;       *)
(*  - NumberOfDays of an emitted row is counted in HALF days, so the       *)
(*    literal 0.5 of the source is HalfDay = 1 and n days are 2 * n;       *)
(*  - a DataFrame is a sequence of records; idx is the index label of a    *)
(*    row of raw_df (kept by rename, filtering and copy), index the        *)
(*    RangeIndex label of a row of result.                                 *)
(***************************************************************************)
EXTENDS Integers, Sequences, FiniteSets, TLC

\* ------------------------------------------------------------------
\* Bounds of the explored inputs
\* ------------------------------------------------------------------
MaxRows == 2
MaxSpan == 3

\* ------------------------------------------------------------------
\* Text
\* ------------------------------------------------------------------
NaN == <<"NaN">>

UpperChars ==
  <<"A","B","C","D","E","F","G","H","I","J","K","L","M",
    "N","O","P","Q","R","S","T","U","V","W","X","Y","Z">>

LowerChars ==
  <<"a","b","c","d","e","f","g","h","i","j","k","l","m",
    "n","o","p","q","r","s","t","u","v","w","x","y","z">>

\* the lower-case letter of each upper-case letter, and the converse
ToLower ==
  [c \in {UpperChars[n] : n \in 1..26} |->
     LowerChars[CHOOSE n \in 1..26 : UpperChars[n] = c]]

ToUpper ==
  [c \in {LowerChars[n] : n \in 1..26} |->
     UpperChars[CHOOSE n \in 1..26 : LowerChars[n] = c]]

is_upper(c) == c \in DOMAIN ToLower

is_lower(c) == c \in DOMAIN ToUpper

is_cased(c) == is_upper(c) \/ is_lower(c)

char_lower(c) == IF is_upper(c) THEN ToLower[c] ELSE c

char_upper(c) == IF is_lower(c) THEN ToUpper[c] ELSE c

\* str.lower()
lower(s) == [i \in 1..Len(s) |-> char_lower(s[i])]

\* str.title(): a cased character is upper-cased when the character before
\* it is not cased (or there is none), lower-cased otherwise
title(s) ==
  [i \in 1..Len(s) |->
     IF i > 1 /\ is_cased(s[i-1]) THEN char_lower(s[i]) ELSE char_upper(s[i])]

is_space(c) == c = " "

\* str.strip(): drop leading and trailing whitespace
strip(s) ==
  LET keep == {i \in 1..Len(s) : ~is_space(s[i])}
  IN  IF keep = {} THEN <<>>
      ELSE LET lo == CHOOSE i \in keep : \A j \in keep : i <= j
               hi == CHOOSE i \in keep : \A j \in keep : j <= i
           IN  SubSeq(s, lo, hi)

\* fillna("")
fillna_str(v) == IF v = NaN THEN <<>> ELSE v

\* re.search(name, text) for a pattern without metacharacters: name occurs
\* somewhere in text
re_search(name, text) ==
  \E t \in {text} :
    \E i \in 0..(Len(t) - Len(name)) : \A j \in 1..Len(name) : t[i + j] = name[j]

\* .fillna("").astype("string").str.strip().str.title()
normalize_str_nostrip(v) == title(fillna_str(v))

normalize_str(v) == title(strip(fillna_str(v)))

FirstSession == <<"F","i","r","s","t"," ","S","e","s","s","i","o","n">>

SecondSession == <<"S","e","c","o","n","d"," ","S","e","s","s","i","o","n">>

approved == <<"a","p","p","r","o","v","e","d">>

\* ------------------------------------------------------------------
\* Dates
\* ------------------------------------------------------------------
NaT == 0

NoMonth == 0

month_name ==
  << <<"J","a","n","u","a","r","y">>,
     <<"F","e","b","r","u","a","r","y">>,
     <<"M","a","r","c","h">>,
     <<"A","p","r","i","l">>,
     <<"M","a","y">>,
     <<"J","u","n","e">>,
     <<"J","u","l","y">>,
     <<"A","u","g","u","s","t">>,
     <<"S","e","p","t","e","m","b","e","r">>,
     <<"O","c","t","o","b","e","r">>,
     <<"N","o","v","e","m","b","e","r">>,
     <<"D","e","c","e","m","b","e","r">> >>

\* calendar.month_abbr: the first three letters of the month name
month_abbr == [m \in 1..12 |-> SubSeq(month_name[m], 1, 3)]

DaysInMonth == <<31, 28, 31, 30, 31, 30, 31, 31, 30, 31, 30, 31>>

RECURSIVE DaysBefore(_)
DaysBefore(m) == IF m = 1 THEN 0 ELSE DaysBefore(m - 1) + DaysInMonth[m - 1]

Years == 2025..2027

\* the Timestamp of a calendar date
Date(y, m, d) == (y - 2025) * 365 + DaysBefore(m) + d

\* Timestamp.month (.dt.month); NaT has no month
Month(t) ==
  IF t = NaT THEN NoMonth
  ELSE LET doy == ((t - 1) % 365) + 1
       IN  CHOOSE m \in 1..12 :
             DaysBefore(m) < doy /\ doy <= DaysBefore(m) + DaysInMonth[m]

\* a raw date cell: a real Excel date (k = "ts", the Timestamp d), a text
\* DD-Mon-YYYY (k = "dmy": day dd, month text mon, year yyyy), any other
\* text (k = "str") or a blank cell (k = "nan")
Ts(t) == [k |-> "ts", d |-> t, dd |-> 0, mon |-> <<>>, yyyy |-> 0]

Dmy(dd, mon, yyyy) == [k |-> "dmy", d |-> 0, dd |-> dd, mon |-> mon, yyyy |-> yyyy]

Str(s) == [k |-> "str", d |-> 0, dd |-> 0, mon |-> s, yyyy |-> 0]

NaNDate == [k |-> "nan", d |-> 0, dd |-> 0, mon |-> <<>>, yyyy |-> 0]

date_notna(v) == v.k # "nan"

\* pd.to_datetime(series, errors="coerce"): the first pass over a column
\* that mixes real dates and text; real dates are taken as they are, what
\* this pass does not read becomes NaT
to_datetime(v) == IF v.k = "ts" THEN v.d ELSE NaT

\* pd.to_datetime(series, format="%d-%b-%Y", errors="coerce"): day, month
\* abbreviation (any case) and four-digit year; an impossible date or any
\* other text becomes NaT
to_datetime_dmy(v) ==
  IF v.k = "ts" THEN v.d
  ELSE IF v.k # "dmy" THEN NaT
  ELSE LET ms == {m \in 1..12 : lower(month_abbr[m]) = lower(v.mon)}
       IN  IF ms = {} \/ v.yyyy \notin Years THEN NaT
           ELSE LET m == CHOOSE x \in ms : TRUE
                IN  IF v.dd >= 1 /\ v.dd <= DaysInMonth[m]
                    THEN Date(v.yyyy, m, v.dd) ELSE NaT

parse_mixed_excel_date(v) ==
  LET parsed == to_datetime(v)
      mask   == parsed = NaT /\ date_notna(v)
  IN  IF mask THEN to_datetime_dmy(v) ELSE parsed

\* ------------------------------------------------------------------
\* Month detection, required columns, cleaning, filter
\* ------------------------------------------------------------------
\* {m.lower(): i for i, m in enumerate(calendar.month_name) if m}, as the
\* lower-cased name of each month number
month_map == [m \in 1..12 |-> lower(month_name[m])]

RECURSIVE scan_months(_, _)
scan_months(m, file_name_lower) ==
  IF m > 12 THEN NoMonth
  ELSE IF re_search(month_map[m], file_name_lower) THEN m
  ELSE scan_months(m + 1, file_name_lower)

RECURSIVE scan_months_backwards(_, _)
scan_months_backwards(m, file_name_lower) ==
  IF m < 1 THEN NoMonth
  ELSE IF re_search(month_map[m], file_name_lower) THEN m
  ELSE scan_months_backwards(m - 1, file_name_lower)

\* a loop that tests December first
detect_month_last_wins(name) == scan_months_backwards(12, lower(name))

\* month_map in insertion order January..December, first match breaks
detect_month(name) == scan_months(1, lower(name))

\* "if not detected_month" does not stop the run
month_check_skipped(m) == TRUE

month_found(m) == m # NoMonth

RawColumns ==
  {"EmployeeCode", "LeaveType", "AppliedFrom", "AppliedTill", "FromSession",
   "ToSession", "NrOfDays", "AppliedOn", "ApplierRemarks", "Status"}

\* the keys of COLUMN_MAP absent from raw_df.columns
missing_columns(columns) == {c \in RawColumns : c \notin columns}

\* raw_df[list(COLUMN_MAP.keys())].rename(columns=COLUMN_MAP), the string
\* normalisation of FromSession / ToSession / Status, the date parsing of
\* AppliedFrom / AppliedTill / AppliedOn and AppliedTill.fillna(AppliedFrom),
\* for the row with index label n
clean_row(n, r) ==
  LET from == parse_mixed_excel_date(r.AppliedFrom)
      till == parse_mixed_excel_date(r.AppliedTill)
  IN  [idx            |-> n,
       EmployeeCode   |-> r.EmployeeCode,
       LeaveType      |-> r.LeaveType,
       AppliedFrom    |-> from,
       AppliedTill    |-> IF till = NaT THEN from ELSE till,
       FromSession    |-> normalize_str(r.FromSession),
       ToSession      |-> normalize_str(r.ToSession),
       NumberOfDays   |-> r.NrOfDays,
       AppliedOn      |-> parse_mixed_excel_date(r.AppliedOn),
       ApplierRemarks |-> r.ApplierRemarks,
       Status         |-> normalize_str(r.Status)]

clean(rows) == [n \in 1..Len(rows) |-> clean_row(n, rows[n])]

\* the filter without the month test
month_filter_status_only(row, month) == lower(row.Status) = approved

\* (df["AppliedFrom"].dt.month == detected_month) &
\* (df["Status"].str.lower() == "approved")
month_filter(row, month) ==
  Month(row.AppliedFrom) = month /\ lower(row.Status) = approved

\* df[df["EmployeeCode"].isin(m_emp)] when m_emp is not empty
emp_filter(row, sel) == sel = {} \/ row.EmployeeCode \in sel

EmployeeCodes(rows) == {rows[n].EmployeeCode : n \in 1..Len(rows)}

\* ------------------------------------------------------------------
\* Normalize loop body
\* ------------------------------------------------------------------
HalfDay == 1

FullDay == 2

\* one list appended to output_rows; req is the index label of the row of
\* filtered_month_df being iterated (the "_" of iterrows)
out_row(row, from, till, from_sess, to_sess, days) ==
  [req            |-> row.idx,
   EmployeeCode   |-> row.EmployeeCode,
   LeaveType      |-> row.LeaveType,
   AppliedFrom    |-> from,
   AppliedTill    |-> till,
   FromSession    |-> from_sess,
   ToSession      |-> to_sess,
   NumberOfDays   |-> days,
   AppliedOn      |-> row.AppliedOn,
   ApplierRemarks |-> row.ApplierRemarks,
   Status         |-> row.Status]

\* (b - a).days + 1
span_days(a, b) == (b - a) + 1

is_full_day(row) == row.FromSession = FirstSession /\ row.ToSession = SecondSession

\* a fast path that trusts the NumberOfDays column
full_day_count_supplied(row) == FullDay * row.NumberOfDays

full_day_count(row) == FullDay * span_days(row.AppliedFrom, row.AppliedTill)

\* the start half-day emitted without advancing the working start
full_start_not_advanced(row) == row.AppliedFrom

full_start(row) ==
  IF row.FromSession = SecondSession THEN row.AppliedFrom + 1 ELSE row.AppliedFrom

\* the end half-day emitted without retreating the working end
full_end_not_retreated(row) == row.AppliedTill

full_end(row) ==
  IF row.ToSession = FirstSession THEN row.AppliedTill - 1 ELSE row.AppliedTill

start_half(row) ==
  IF row.FromSession = SecondSession
  THEN << out_row(row, row.AppliedFrom, row.AppliedFrom,
                  SecondSession, SecondSession, HalfDay) >>
  ELSE << >>

end_half(row) ==
  IF row.ToSession = FirstSession
  THEN << out_row(row, row.AppliedTill, row.AppliedTill,
                  FirstSession, FirstSession, HalfDay) >>
  ELSE << >>

\* a middle row that copies the sessions of the request
middle_copies_sessions(row) ==
  LET fs == full_start(row)
      fe == full_end(row)
  IN  IF fs <= fe /\ span_days(fs, fe) > 0
      THEN << out_row(row, fs, fe, row.FromSession, row.ToSession,
                      FullDay * span_days(fs, fe)) >>
      ELSE << >>

middle(row) ==
  LET fs == full_start(row)
      fe == full_end(row)
  IN  IF fs <= fe /\ span_days(fs, fe) > 0
      THEN << out_row(row, fs, fe, FirstSession, SecondSession,
                      FullDay * span_days(fs, fe)) >>
      ELSE << >>

\* the rows one iteration appends, in the order it appends them
normalize(row) ==
  IF is_full_day(row)
  THEN << out_row(row, row.AppliedFrom, row.AppliedTill,
                  row.FromSession, row.ToSession, full_day_count(row)) >>
  ELSE start_half(row) \o end_half(row) \o middle(row)

\* ------------------------------------------------------------------
\* Result and payroll table
\* ------------------------------------------------------------------
\* pd.DataFrame(output_rows, columns=[...]): the rows get the labels 1..n
DataFrame(rows) ==
  [n \in 1..Len(rows) |->
     [index          |-> n,
      req            |-> rows[n].req,
      EmployeeCode   |-> rows[n].EmployeeCode,
      LeaveType      |-> rows[n].LeaveType,
      AppliedFrom    |-> rows[n].AppliedFrom,
      AppliedTill    |-> rows[n].AppliedTill,
      FromSession    |-> rows[n].FromSession,
      ToSession      |-> rows[n].ToSession,
      NumberOfDays   |-> rows[n].NumberOfDays,
      AppliedOn      |-> rows[n].AppliedOn,
      ApplierRemarks |-> rows[n].ApplierRemarks,
      Status         |-> rows[n].Status]]

key_lt(a, b) ==
  \/ a.EmployeeCode < b.EmployeeCode
  \/ a.EmployeeCode = b.EmployeeCode /\ a.AppliedFrom < b.AppliedFrom

\* a sort that puts a row in front of the rows with an equal key
goes_before_on_ties(a, b) == ~key_lt(b, a)

\* row a is placed in front of row b, which was placed earlier
goes_before(a, b) == key_lt(a, b)

RECURSIVE insert_row(_, _)
insert_row(r, sorted) ==
  IF sorted = << >> THEN << r >>
  ELSE IF goes_before(r, Head(sorted)) THEN << r >> \o sorted
  ELSE << Head(sorted) >> \o insert_row(r, Tail(sorted))

RECURSIVE sort_prefix(_, _)
sort_prefix(rows, n) ==
  IF n = 0 THEN << >> ELSE insert_row(rows[n], sort_prefix(rows, n - 1))

\* .sort_values(["EmployeeCode", "AppliedFrom"]): the sort on several keys
\* is a lexsort, which keeps rows of equal key in their order
sort_values(rows) == sort_prefix(rows, Len(rows))

NoCode == -1

\* SESSION_MAP.get((f, t))
SESSION_MAP_get(f, t) ==
  IF f = FirstSession /\ t = FirstSession THEN 1
  ELSE IF f = SecondSession /\ t = SecondSession THEN 2
  ELSE IF f = FirstSession /\ t = SecondSession THEN 0
  ELSE NoCode

payroll_row(r) ==
  [index          |-> r.index,
   EmployeeID     |-> r.EmployeeCode,
   LeaveType      |-> r.LeaveType,
   Unit           |-> "Day",
   From           |-> r.AppliedFrom,
   To             |-> r.AppliedTill,
   Session        |-> SESSION_MAP_get(r.FromSession, r.ToSession),
   StartTime      |-> "",
   DaysHoursTaken |-> r.NumberOfDays,
   ReasonForLeave |-> r.ApplierRemarks]

\* ------------------------------------------------------------------
\* Uploaded files explored
\* ------------------------------------------------------------------
D0 == Date(2025, 6, 3)

Jun == <<"J","u","n">>

NotADate == Str(<<"n","/","a">>)

FileJune == <<"J","u","n","e","_","L","e","a","v","e",".","c","s","v">>

FileNoMonth == <<"J","u","n","_","L","e","a","v","e",".","c","s","v">>

FileNames ==
  { FileJune,
    FileNoMonth,
    <<"L","E","A","V","E","_","J","U","N","E",".","x","l","s","x">>,
    <<"M","a","y","_","J","a","n","u","a","r","y",".","c","s","v">>,
    <<"j","u","l","y","j","u","n","e",".","c","s","v">>,
    <<"r","e","p","o","r","t",".","c","s","v">> }

RawSessions ==
  { FirstSession,
    <<" ","s","e","c","o","n","d"," ","s","e","s","s","i","o","n"," ">>,
    <<"H","a","l","f"," ","D","a","y">>,
    NaN }

RawStatuses ==
  { <<"A","p","p","r","o","v","e","d">>,
    <<" ","a","p","p","r","o","v","e","d"," ">>,
    <<"A","P","P","R","O","V","E","D">>,
    <<"R","e","j","e","c","t","e","d">>,
    NaN }

Request(emp, from, till, from_sess, to_sess, days, status) ==
  [EmployeeCode   |-> emp,
   LeaveType      |-> "CL",
   AppliedFrom    |-> from,
   AppliedTill    |-> till,
   FromSession    |-> from_sess,
   ToSession      |-> to_sess,
   NrOfDays       |-> days,
   AppliedOn      |-> Ts(D0 - 7),
   ApplierRemarks |-> "remarks",
   Status         |-> status]

BaseRequest ==
  Request(1, Ts(D0), Ts(D0 + 1), SecondSession, FirstSession, 1, title(approved))

\* one approved request of the month: every pair of session cells, every
\* AppliedTill from two days before AppliedFrom to MaxSpan days after it,
\* as a date, as text, unreadable or blank, and two NrOfDays cells
SessionRequests ==
  { Request(1, Ts(D0), till, ss[1], ss[2], days, title(approved)) :
      till \in {Ts(D0 + k) : k \in (0 - 2)..MaxSpan}
               \cup {NaNDate, NotADate, Dmy(5, Jun, 2025)},
      ss \in RawSessions \X RawSessions, days \in {1, 3} }

\* one half-day request: every status cell, AppliedFrom in and out of the
\* month, as a date, as text, unreadable or blank
StatusRequests ==
  { Request(1, from, NaNDate, SecondSession, SecondSession, 1, st) :
      from \in { Ts(D0), Ts(Date(2025, 7, 1)), Ts(Date(2025, 5, 31)),
                 Ts(Date(2026, 6, 3)), Dmy(4, Jun, 2025),
                 Dmy(4, <<"J","U","L">>, 2025), Dmy(31, Jun, 2025),
                 NotADate, NaNDate },
      st \in RawStatuses }

\* the requests of the files with several rows
BatchRequests ==
  { Request(emp, Ts(from), Ts(from + 1), FirstSession, SecondSession, 2, title(approved)) :
      emp \in {1, 2}, from \in {D0 - 1, D0} }
  \cup
  { Request(emp, Ts(from), Ts(from + more), SecondSession, FirstSession, 1, title(approved)) :
      emp \in {1, 2}, from \in {D0 - 1, D0}, more \in {0, 1} }
  \cup
  { Request(1, Ts(D0), NotADate, SecondSession, SecondSession, 1, title(approved)),
    Request(1, NotADate, Ts(D0), SecondSession, SecondSession, 1, title(approved)),
    Request(2, Ts(D0), Ts(D0), SecondSession, SecondSession, 1,
            <<"R","e","j","e","c","t","e","d">>) }

ColumnSets ==
  { RawColumns,
    RawColumns \ {"LeaveType"},
    RawColumns \ {"NrOfDays", "AppliedOn"},
    RawColumns \ {"EmployeeCode"},
    RawColumns \ {"Status"} }

\* the table read from a file that has only the given columns
table(columns, rows) ==
  [columns |-> columns,
   rows    |-> [n \in 1..Len(rows) |-> [c \in columns |-> rows[n][c]]]]

Upload(name, columns, rows) == [name |-> name, df |-> table(columns, rows)]

Uploads ==
  { Upload(name, RawColumns, << BaseRequest >>) : name \in FileNames }
  \cup
  { Upload(name, columns, << BaseRequest >>) :
      name \in {FileJune, FileNoMonth}, columns \in ColumnSets }
  \cup
  { Upload(FileJune, RawColumns, << r >>) : r \in SessionRequests \cup StatusRequests }
  \cup
  { Upload(FileJune, RawColumns, rows) :
      rows \in UNION { [1..n -> BatchRequests] : n \in 2..MaxRows } }

\* ------------------------------------------------------------------
\* State
\* ------------------------------------------------------------------
VARIABLES
  pc,                 \* position of the script
  file_name,          \* file.name
  raw_df,             \* the table read from the file
  message,            \* what the run reported when it stopped
  detected_month,
  df,                 \* the cleaned, then month-filtered frame
  m_emp,              \* the EmployeeCode (Month) selection
  filtered_month_df,
  i,                  \* position of the normalize loop in filtered_month_df
  output_rows,
  result,
  payroll_df

vars ==
  << pc, file_name, raw_df, message, detected_month, df, m_emp,
     filtered_month_df, i, output_rows, result, payroll_df >>

Init ==
  /\ pc = "upload"
  /\ file_name = << >>
  /\ raw_df = table({}, << >>)
  /\ message = "upload a file"
  /\ detected_month = NoMonth
  /\ df = << >>
  /\ m_emp = {}
  /\ filtered_month_df = << >>
  /\ i = 1
  /\ output_rows = << >>
  /\ result = << >>
  /\ payroll_df = << >>

\* lines 26-41: a file is uploaded and read
ReadFile ==
  /\ pc = "upload"
  /\ \E u \in Uploads :
       /\ file_name' = u.name
       /\ raw_df' = u.df
  /\ message' = ""
  /\ pc' = "raw_view"
  /\ UNCHANGED << detected_month, df, m_emp, filtered_month_df, i,
                  output_rows, result, payroll_df >>

\* lines 46-67: the raw view reads raw_df["EmployeeCode"] and
\* raw_df["Status"]; a missing column raises KeyError and ends the run.
\* The two selections made here only shape filtered_raw_df, the frame that
\* is displayed and exported as it is; no later stage reads it.
RawView ==
  /\ pc = "raw_view"
  /\ IF {"EmployeeCode", "Status"} \subseteq raw_df.columns
     THEN /\ pc' = "detect_month"
          /\ UNCHANGED message
     ELSE /\ pc' = "stopped"
          /\ message' = "KeyError"
  /\ UNCHANGED << file_name, raw_df, detected_month, df, m_emp,
                  filtered_month_df, i, output_rows, result, payroll_df >>

\* lines 72-85
DetectMonth ==
  /\ pc = "detect_month"
  /\ detected_month' = detect_month(file_name)
  /\ IF month_found(detected_month')
     THEN /\ pc' = "check_columns"
          /\ UNCHANGED message
     ELSE /\ pc' = "stopped"
          /\ message' = "Month name not found in file name"
  /\ UNCHANGED << file_name, raw_df, df, m_emp, filtered_month_df, i,
                  output_rows, result, payroll_df >>

\* lines 103-106
CheckColumns ==
  /\ pc = "check_columns"
  /\ IF missing_columns(raw_df.columns) # {}
     THEN /\ pc' = "stopped"
          /\ message' = "Missing required columns in RAW data"
     ELSE /\ pc' = "clean"
          /\ UNCHANGED message
  /\ UNCHANGED << file_name, raw_df, detected_month, df, m_emp,
                  filtered_month_df, i, output_rows, result, payroll_df >>

\* lines 111-127
Clean ==
  /\ pc = "clean"
  /\ df' = clean(raw_df.rows)
  /\ pc' = "filter"
  /\ UNCHANGED << file_name, raw_df, message, detected_month, m_emp,
                  filtered_month_df, i, output_rows, result, payroll_df >>

\* lines 133-140
FilterMonth ==
  /\ pc = "filter"
  /\ df' = SelectSeq(df, LAMBDA row : month_filter(row, detected_month))
  /\ IF df' = << >>
     THEN /\ pc' = "stopped"
          /\ message' = "No leave records found for detected month"
     ELSE /\ pc' = "month_view"
          /\ UNCHANGED message
  /\ UNCHANGED << file_name, raw_df, detected_month, m_emp,
                  filtered_month_df, i, output_rows, result, payroll_df >>

\* lines 147-157: the selection is any set of the offered employee codes
MonthView ==
  /\ pc = "month_view"
  /\ \E sel \in SUBSET EmployeeCodes(df) :
       /\ m_emp' = sel
       /\ filtered_month_df' = SelectSeq(df, LAMBDA row : emp_filter(row, sel))
  /\ i' = 1
  /\ output_rows' = << >>
  /\ pc' = "normalize"
  /\ UNCHANGED << file_name, raw_df, message, detected_month, df,
                  result, payroll_df >>

\* lines 164-210: one iteration of the loop over filtered_month_df
NormalizeRow ==
  /\ pc = "normalize"
  /\ i <= Len(filtered_month_df)
  /\ output_rows' = output_rows \o normalize(filtered_month_df[i])
  /\ i' = i + 1
  /\ UNCHANGED << pc, file_name, raw_df, message, detected_month, df, m_emp,
                  filtered_month_df, result, payroll_df >>

\* lines 215-229: the loop is over, the result frame is built and sorted
SortResult ==
  /\ pc = "normalize"
  /\ i > Len(filtered_month_df)
  /\ result' = sort_values(DataFrame(output_rows))
  /\ pc' = "payroll"
  /\ UNCHANGED << file_name, raw_df, message, detected_month, df, m_emp,
                  filtered_month_df, i, output_rows, payroll_df >>

\* lines 244-263
Payroll ==
  /\ pc = "payroll"
  /\ payroll_df' = [n \in 1..Len(result) |-> payroll_row(result[n])]
  /\ pc' = "done"
  /\ UNCHANGED << file_name, raw_df, message, detected_month, df, m_emp,
                  filtered_month_df, i, output_rows, result >>

Next ==
  \/ ReadFile
  \/ RawView
  \/ DetectMonth
  \/ CheckColumns
  \/ Clean
  \/ FilterMonth
  \/ MonthView
  \/ NormalizeRow
  \/ SortResult
  \/ Payroll

Spec == Init /\ [][Next]_vars

TypeOK ==
  /\ pc \in {"upload", "raw_view", "detect_month", "check_columns", "clean",
             "filter", "month_view", "normalize", "payroll", "done", "stopped"}
  /\ detected_month \in 0..12
  /\ i \in 1..(Len(filtered_month_df) + 1)

\* ------------------------------------------------------------------
\* Properties
\* ------------------------------------------------------------------
\* the requests the normalize loop has iterated over
Processed == {filtered_month_df[k] : k \in 1..(i - 1)}

\* the rows emitted for the request with index label n, in emission order
RowsOf(n) == SelectSeq(output_rows, LAMBDA r : r.req = n)

RECURSIVE SumDays(_)
SumDays(rows) ==
  IF rows = << >> THEN 0 ELSE Head(rows).NumberOfDays + SumDays(Tail(rows))

\* the number of half-day trims the sessions of a request ask for
Halves(row) ==
  (IF row.FromSession = SecondSession THEN 1 ELSE 0)
  + (IF row.ToSession = FirstSession THEN 1 ELSE 0)

InclusiveDays(row) == (row.AppliedTill - row.AppliedFrom) + 1

Overlap(a, b) == a.AppliedFrom <= b.AppliedTill /\ b.AppliedFrom <= a.AppliedTill

\* the month names that occur in the file name, whatever the case
LowerCaseMonthNames == [m \in 1..12 |-> lower(month_name[m])]

MonthsInName ==
  UNION { {m \in 1..12 : re_search(LowerCaseMonthNames[m], name)} :
            name \in {lower(file_name)} }

DetectionRan ==
  \/ pc \in {"check_columns", "clean", "filter", "month_view", "normalize",
             "payroll", "done"}
  \/ pc = "stopped" /\ message # "KeyError"

FilterRan ==
  \/ pc \in {"month_view", "normalize", "payroll", "done"}
  \/ pc = "stopped" /\ message = "No leave records found for detected month"

\* a non-blank date cell that neither parsing strategy reads
Unparsable(v) == date_notna(v) /\ parse_mixed_excel_date(v) = NaT

\* C1 (as stated): for every processed request off the fast path (with
\* AppliedFrom <= AppliedTill), the NumberOfDays of its rows add up to the
\* inclusive day count of the span.
C1_SumIsInclusiveCount ==
  \A row \in Processed :
    (~is_full_day(row) /\ row.AppliedFrom <= row.AppliedTill)
      => SumDays(RowsOf(row.idx)) = FullDay * InclusiveDays(row)

\* C1 (amended): for every processed request off the fast path, the
\* NumberOfDays of its rows add up to half a day per half-day trim (one for
\* fromSession = Second Session, one for toSession = First Session) plus the
\* whole days that remain when each trim takes one day off the inclusive
\* day count, none if nothing remains.
C1_SumIsHalvesPlusRemainder ==
  \A row \in Processed :
    ~is_full_day(row) =>
      SumDays(RowsOf(row.idx)) =
        HalfDay * Halves(row)
        + (IF InclusiveDays(row) > Halves(row)
           THEN FullDay * (InclusiveDays(row) - Halves(row)) ELSE 0)

\* C1 witness: a request that starts in the second session and ends in the
\* first has been split into two half days and a middle row
C1_Witness ==
  \E row \in Processed :
    /\ Halves(row) = 2
    /\ Len(RowsOf(row.idx)) = 3
    /\ SumDays(RowsOf(row.idx)) = FullDay * InclusiveDays(row) - FullDay * HalfDay

\* C2: a processed request with (First Session, Second Session) has exactly
\* one row, over [AppliedFrom, AppliedTill], with those sessions and the
\* inclusive day count, whatever its NumberOfDays cell held.
C2_FastPathOneRow ==
  \A row \in Processed :
    is_full_day(row) =>
      /\ Len(RowsOf(row.idx)) = 1
      /\ LET r == RowsOf(row.idx)[1]
         IN  /\ r.AppliedFrom = row.AppliedFrom
             /\ r.AppliedTill = row.AppliedTill
             /\ r.FromSession = FirstSession
             /\ r.ToSession = SecondSession
             /\ r.NumberOfDays = FullDay * InclusiveDays(row)

\* C2 witness: a fast-path request of several days whose NumberOfDays cell
\* disagrees with its span has been processed
C2_Witness ==
  \E row \in Processed :
    /\ is_full_day(row)
    /\ InclusiveDays(row) > 1
    /\ row.NumberOfDays # InclusiveDays(row)
    /\ Len(RowsOf(row.idx)) = 1

\* C3 (as stated): no emitted row has NumberOfDays <= 0.
C3_NoNonPositiveRows ==
  \A k \in 1..Len(output_rows) : output_rows[k].NumberOfDays > 0

\* C4 (as stated): the spans of two different rows of one request never
\* share a date.
C4_SpansDisjoint ==
  \A row \in Processed :
    LET rows == RowsOf(row.idx)
    IN  \A a, b \in 1..Len(rows) : a < b => ~Overlap(rows[a], rows[b])

\* C4 (amended): the spans of two different rows of one request share a
\* date only when the request starts in the second session and ends in the
\* first session of the same day; its two rows are then the two half days
\* of that date, one per session.
C4_SpansDisjointButSameDayHalves ==
  \A row \in Processed :
    LET rows == RowsOf(row.idx)
    IN  \A a, b \in 1..Len(rows) :
          (a < b /\ Overlap(rows[a], rows[b])) =>
            /\ row.FromSession = SecondSession
            /\ row.ToSession = FirstSession
            /\ row.AppliedFrom = row.AppliedTill
            /\ Len(rows) = 2
            /\ rows[a].FromSession = SecondSession
            /\ rows[b].FromSession = FirstSession

\* C4 witness: a request split into three rows has been processed
C4_Witness ==
  \E row \in Processed :
    /\ Len(RowsOf(row.idx)) = 3
    /\ row.AppliedFrom < row.AppliedTill

\* C5: every emitted row has one of the three session pairs, and every row
\* of the payroll table a Session code 0, 1 or 2.
C5_SessionPairsMapped ==
  /\ \A k \in 1..Len(output_rows) :
       << output_rows[k].FromSession, output_rows[k].ToSession >> \in
         { << FirstSession, FirstSession >>, << SecondSession, SecondSession >>,
           << FirstSession, SecondSession >> }
  /\ \A k \in 1..Len(result) :
       SESSION_MAP_get(result[k].FromSession, result[k].ToSession) \in {0, 1, 2}
  /\ \A k \in 1..Len(payroll_df) : payroll_df[k].Session \in {0, 1, 2}

\* C5 witness: the payroll table holds a row of a request whose session
\* cells were blank or unrecognised
C5_Witness ==
  /\ pc = "done"
  /\ \E row \in Processed :
       /\ row.FromSession \notin {FirstSession, SecondSession}
       /\ row.ToSession \notin {FirstSession, SecondSession}
       /\ \E k \in 1..Len(payroll_df) : result[k].req = row.idx

\* C6: rows are emitted in request order and, within a request, start
\* half, end half, middle; the result holds exactly the emitted rows,
\* unaltered, ascending by (EmployeeCode, AppliedFrom), rows of equal key
\* in emission order.
C6_StableSortedPermutation ==
  /\ \A a, b \in 1..Len(output_rows) :
       a < b =>
         /\ output_rows[a].req <= output_rows[b].req
         /\ output_rows[a].req = output_rows[b].req =>
              /\ output_rows[a].FromSession = output_rows[a].ToSession
              /\ output_rows[b].FromSession = FirstSession
              /\ output_rows[a].FromSession = FirstSession
                   => output_rows[b].ToSession = SecondSession
  /\ pc \in {"payroll", "done"} =>
       /\ Len(result) = Len(output_rows)
       /\ \A n \in 1..Len(result) :
            /\ result[n].index \in 1..Len(output_rows)
            /\ result[n] = DataFrame(output_rows)[result[n].index]
       /\ \A a, b \in 1..Len(result) :
            a < b =>
              /\ result[a].index # result[b].index
              /\ ~key_lt(result[b], result[a])
              /\ ~key_lt(result[a], result[b]) => result[a].index < result[b].index

\* C6 witness: the sort has moved a row in front of an earlier one and has
\* kept two rows of different requests with the same key
C6_Witness ==
  /\ pc = "done"
  /\ \E a, b \in 1..Len(result) : a < b /\ result[a].index > result[b].index
  /\ \E a, b \in 1..Len(result) :
       /\ a < b
       /\ result[a].req # result[b].req
       /\ ~key_lt(result[a], result[b])
       /\ ~key_lt(result[b], result[a])

\* C7: once the filter has run, df holds exactly the requests whose parsed
\* AppliedFrom is in the detected month and whose Status, trimmed and
\* lower-cased, is "approved"; the run stops with the empty-state message,
\* and without any row, exactly when there is none.
C7_FilterExact ==
  FilterRan =>
    LET kept == {n \in 1..Len(raw_df.rows) :
                   /\ Month(parse_mixed_excel_date(raw_df.rows[n].AppliedFrom))
                        = detected_month
                   /\ lower(strip(fillna_str(raw_df.rows[n].Status))) = approved}
    IN  /\ {df[k].idx : k \in 1..Len(df)} = kept
        /\ Len(df) = Cardinality(kept)
        /\ (kept = {}) <=> (pc = "stopped")
        /\ pc = "stopped" =>
             /\ output_rows = << >>
             /\ result = << >>
             /\ payroll_df = << >>

\* C7 witness: a request whose Status cell needs trimming and case folding
\* has been kept
C7_Witness ==
  /\ pc = "month_view"
  /\ \E k \in 1..Len(df) :
       /\ raw_df.rows[df[k].idx].Status # title(approved)
       /\ strip(raw_df.rows[df[k].idx].Status) # raw_df.rows[df[k].idx].Status

C9_UnparsedDatesExcluded ==
  \A k \in 1..Len(output_rows) :
    LET raw == raw_df.rows[output_rows[k].req]
    IN  ~Unparsable(raw.AppliedFrom) /\ ~Unparsable(raw.AppliedTill)

\* C10: a run on a file without a month name, or without a required column,
\* never gets past the checks: it stops with an error and no request is
\* normalized, no result or payroll row produced.
C10_NoProcessingAfterFatalError ==
  /\ (pc # "upload" /\ MonthsInName = {}) =>
       pc \in {"raw_view", "detect_month", "stopped"}
  /\ (pc # "upload" /\ ~(RawColumns \subseteq raw_df.columns)) =>
       pc \in {"raw_view", "detect_month", "check_columns", "stopped"}
  /\ (pc # "upload" /\ (MonthsInName = {} \/ ~(RawColumns \subseteq raw_df.columns))) =>
       /\ pc = "stopped" =>
            message \in {"KeyError", "Month name not found in file name",
                         "Missing required columns in RAW data"}
       /\ df = << >>
       /\ filtered_month_df = << >>
       /\ i = 1
       /\ output_rows = << >>
       /\ result = << >>
       /\ payroll_df = << >>

\* C10 witness: a run has stopped on a missing column after the month was
\* detected
C10_Witness ==
  /\ pc = "stopped"
  /\ message = "Missing required columns in RAW data"
  /\ MonthsInName # {}
  /\ ~(RawColumns \subseteq raw_df.columns)

====
